---- MODULE Spec2Model ----
(***************************************************************************)
(* Rolling windows of asecurityteam/rolling: the time-bucketed TimeWindow  *)
(* (time.go) and the count-bounded PointWindow (point.go), each called by  *)
(* several goroutines; the aggregators of aggregate.go and the reducers of *)
(* reduce.go applied to what an iterator yields; and the Percentile        *)
(* reducer called by several goroutines on a shared TimeWindow. Further    *)
(* specifications cover the rollups and their chain of Aggregate structs   *)
(* (SpecRollup), the streaming FastPercentile (SpecFast), the constructors *)
(* called with arbitrary parameters (SpecConstruct), the scratch slice of  *)
(* the percentile aggregator (SpecHint), the limited aggregator over a     *)
(* TimeWindow that is appended to between its two passes (SpecGate), and   *)
(* the TimeWindow under a wall clock that is set back (SpecRegress).       *)
(*                                                                         *)
(* A sample of the time window is modelled as a record [value, born]:      *)
(* value is the float64 the code stores, born is a history annotation (the *)
(* bucket index at which the sample was appended) that the code does not   *)
(* keep and never reads; it only lets properties speak about sample age.   *)
(***************************************************************************)
EXTENDS Integers, Sequences, FiniteSets, TLC

\* ---------------------------------------------------------------- bounds
MaxBuckets == 2
MaxBucketSize == 2
MaxClock == 7
MaxAppends == 2
MaxWindowSize == 5
MaxFeeds == 7
MaxSamples == 3
MaxReduceClock == 1
MaxReduceAppends == 1
Goroutines == {1, 2}
Values == {1, 2}
Points == {1, 2, 4}
Limits == {0, 2, 4}
\* percentiles in tenths of a percent: 0, 0.1, 20, 25, 50, 75, 99, 99.9, 100
Percentiles == {0, 1, 200, 250, 500, 750, 990, 999, 1000}
ReducerPercentiles == {500}

VARIABLES
    args,       \* constructor arguments of the TimeWindow (history)
    tw,         \* the TimeWindow object: its fields
    now,        \* the wall clock, time.Now().UnixNano()
    pc,         \* position of each goroutine inside its current call
    call,       \* the call each goroutine is executing: operation, argument
    local,      \* the call's local variables adjustedTime, windowOffset
    visited,    \* the samples the call's visit function has received so far
    lastTouch,  \* history: bucket index of the previous Append/Iterate
    history,    \* history: every sample appended so far, in order
    pw,         \* the PointWindow object: its fields
    fed,        \* history: every value appended to the PointWindow, in order
    iterator,   \* the values an iteratable hands to its visit function, in order
    out,        \* the last aggregation: function, arguments, returned float64
    reducer,    \* the closure of Percentile(p): p, values, lock
    rollup,     \* a stack of rollups, the Aggregate structs allocated, the
                \* address of the last one returned
    estimator,  \* FastPercentile(p): p and the variables of one call
    built,      \* a window built from arbitrary parameters, and the outcome
                \* of the first operation on it
    aggregator  \* a percentileAggregator: percentile and scratch values

vars == <<args, tw, now, pc, call, local, visited, lastTouch, history, pw, fed,
          iterator, out, reducer, rollup, estimator, built, aggregator>>
timeWindowVars == <<args, tw, now, local, lastTouch, history>>
pointWindowVars == <<pw, fed>>
aggregateVars == <<iterator, out, rollup, estimator, built, aggregator>>

NoCall == [op |-> "none", value |-> 0]
NoLocal == [adjustedTime |-> 0, windowOffset |-> 0]
NoTouch == 0 - 1

\* a float64 is modelled exactly, as the fraction num/den with den > 0, or as
\* NaN or an infinity; a call that panics returns no float64
Float(num, den) == [kind |-> "float", num |-> num, den |-> den]
NaN == [kind |-> "NaN", num |-> 0, den |-> 0]
Inf(sign) == [kind |-> "Inf", num |-> sign, den |-> 0]
Panic == [kind |-> "panic", num |-> 0, den |-> 0]
NoResult == [op |-> "none", percentile |-> 0, lower |-> 0, upper |-> 0,
             limit |-> 0, result |-> Float(0, 1)]

\* no rollup has been built and no Aggregate struct allocated; nil is 0
NoRollup == [rollups |-> <<>>, heap |-> <<>>, result |-> 0]

\* no percentile aggregator has been made
NoAggregator == [made |-> FALSE]

\* no constructor has been called
NotBuilt == [state |-> "none", kind |-> "none"]

\* FastPercentile has not been called
NoEstimator == [at |-> "idle"]

\* Percentile(p): the closure's variables; the lock starts unlocked
NewPercentile(p) == [p |-> p, values |-> <<>>, lock |-> FALSE]

\* ------------------------------------------------------------ TimeWindow
\* NewTimeWindow(bucketSize, numberOfBuckets): one more bucket than asked.
NewTimeWindow(bucketSize, numberOfBuckets) ==
    [ bucketSizeNano   |-> bucketSize,
      numberOfBuckets  |-> numberOfBuckets + 1,
      window           |-> [offset \in 0..numberOfBuckets |-> <<>>],
      lastWindowOffset |-> 0,
      lastWindowTime   |-> 0,
      lock             |-> FALSE ]

\* resetWindow: every bucket truncated to length 0.
resetWindow(w) ==
    [w EXCEPT !.window = [offset \in DOMAIN w.window |-> <<>>]]

\* variant of resetBuckets that also truncates the bucket of the last Append
resetBucketsFromLast(w, windowOffset) ==
    LET d0 == windowOffset - w.lastWindowOffset
        distance == IF d0 < 0
                      THEN (w.numberOfBuckets - w.lastWindowOffset) + windowOffset
                      ELSE d0
        cleared == { (counter + w.lastWindowOffset) % w.numberOfBuckets :
                        counter \in 0..(distance - 1) }
    IN [w EXCEPT !.window = [offset \in DOMAIN w.window |->
                               IF offset \in cleared THEN <<>> ELSE w.window[offset]]]

\* resetBuckets: the buckets strictly between the last offset and the
\* current one, in ring order, truncated to length 0.
resetBuckets(w, windowOffset) ==
    LET d0 == windowOffset - w.lastWindowOffset
        distance == IF d0 < 0
                      THEN (w.numberOfBuckets - w.lastWindowOffset) + windowOffset
                      ELSE d0
        cleared == { (counter + w.lastWindowOffset) % w.numberOfBuckets :
                        counter \in 1..(distance - 1) }
    IN [w EXCEPT !.window = [offset \in DOMAIN w.window |->
                               IF offset \in cleared THEN <<>> ELSE w.window[offset]]]

\* variant of keepConsistent whose partial repair truncates every bucket
keepConsistentWholeWindow(w, adjustedTime, windowOffset) ==
    LET w1 == IF adjustedTime - w.lastWindowTime > w.numberOfBuckets
                THEN resetWindow(w) ELSE w
    IN IF adjustedTime # w1.lastWindowTime
          /\ adjustedTime - w1.lastWindowTime < w1.numberOfBuckets
         THEN resetWindow(w1) ELSE w1

\* keepConsistent: the two ifs, in order.
keepConsistent(w, adjustedTime, windowOffset) ==
    LET w1 == IF adjustedTime - w.lastWindowTime > w.numberOfBuckets
                THEN resetWindow(w) ELSE w
    IN IF adjustedTime # w1.lastWindowTime
          /\ adjustedTime - w1.lastWindowTime < w1.numberOfBuckets
         THEN resetBuckets(w1, windowOffset) ELSE w1

\* variant of selectBucket that takes the offset modulo the number of buckets
\* asked for, without the spare one
selectBucketNoSpare(w, currentTime) ==
    LET adjustedTime == currentTime \div w.bucketSizeNano
    IN [adjustedTime |-> adjustedTime,
        windowOffset |-> adjustedTime % (w.numberOfBuckets - 1)]

\* selectBucket: the clock in bucket units, and its ring offset.
selectBucket(w, currentTime) ==
    LET adjustedTime == currentTime \div w.bucketSizeNano
    IN [adjustedTime |-> adjustedTime,
        windowOffset |-> adjustedTime % w.numberOfBuckets]

\* the order in which Iterate's nested range loops visit the samples
RECURSIVE Flatten(_, _, _)
Flatten(window, offset, size) ==
    IF offset >= size THEN <<>>
    ELSE window[offset] \o Flatten(window, offset + 1, size)

\* NewPointWindow(windowSize): windowSize zero-valued slots, cursor at 0.
\* lock is the sync.RWMutex: whether a writer holds it, how many readers do.
NewPointWindow(windowSize) ==
    [ windowSize |-> windowSize,
      window     |-> [slot \in 0..(windowSize - 1) |-> 0],
      offset     |-> 0,
      lock       |-> [writer |-> FALSE, readers |-> 0] ]

\* nothing is aggregated
NoAggregation ==
    /\ iterator = <<>>
    /\ out = NoResult
    /\ rollup = NoRollup
    /\ estimator = NoEstimator
    /\ built = NotBuilt
    /\ aggregator = NoAggregator
    /\ reducer = NewPercentile(0)

\* the goroutines have made no call yet
InitGoroutines ==
    /\ now = 0
    /\ pc = [g \in Goroutines |-> "idle"]
    /\ call = [g \in Goroutines |-> NoCall]
    /\ local = [g \in Goroutines |-> NoLocal]
    /\ visited = [g \in Goroutines |-> <<>>]
    /\ lastTouch = NoTouch
    /\ history = <<>>
    /\ fed = <<>>

\* the goroutines share a TimeWindow built with any arguments within the
\* bounds (the PointWindow is a bystander)
Init ==
    /\ args \in [bucketSize : 1..MaxBucketSize, numberOfBuckets : 1..MaxBuckets]
    /\ tw = NewTimeWindow(args.bucketSize, args.numberOfBuckets)
    /\ pw = NewPointWindow(1)
    /\ NoAggregation
    /\ InitGoroutines

\* the wall clock advances
Tick ==
    /\ now < MaxClock
    /\ now' = now + 1
    /\ UNCHANGED <<aggregateVars, reducer, pw, fed, args, tw, pc, call, local, visited, lastTouch, history>>

\* variant of MutexLock that does not wait
MutexLockNoWait(w) == tw' = [w EXCEPT !.lock = TRUE]

\* w.lock.Lock() of sync.Mutex: blocks while the mutex is held
MutexLock(w) == /\ ~w.lock
                /\ tw' = [w EXCEPT !.lock = TRUE]

\* a goroutine calls TimeWindow.Append(value)
AppendCall(g, value) ==
    /\ pc[g] = "idle"
    /\ Len(history) + Cardinality({h \in Goroutines : call[h].op = "Append"}) < MaxAppends
    /\ call' = [call EXCEPT ![g] = [op |-> "Append", value |-> value]]
    /\ pc' = [pc EXCEPT ![g] = "lock"]
    /\ UNCHANGED <<aggregateVars, reducer, pw, fed, args, tw, now, local, visited, lastTouch, history>>

\* a goroutine calls TimeWindow.Iterate(f)
IterateCall(g) ==
    /\ pc[g] = "idle"
    /\ call' = [call EXCEPT ![g] = [op |-> "Iterate", value |-> 0]]
    /\ pc' = [pc EXCEPT ![g] = "lock"]
    /\ UNCHANGED <<aggregateVars, reducer, pw, fed, args, tw, now, local, visited, lastTouch, history>>

\* variant of Lock in which the call goes on to read the clock without
\* holding the mutex
LockUnheld(g) ==
    /\ pc[g] = "lock"
    /\ pc' = [pc EXCEPT ![g] = "select"]
    /\ UNCHANGED <<aggregateVars, reducer, pw, fed, args, tw, now, call, local, visited, lastTouch, history>>

\* Append line 82, Iterate line 94: w.lock.Lock()
Lock(g) ==
    /\ pc[g] = "lock"
    /\ MutexLock(tw)
    /\ pc' = [pc EXCEPT ![g] = "select"]
    /\ UNCHANGED <<aggregateVars, reducer, pw, fed, args, now, call, local, visited, lastTouch, history>>

\* lines 85 and 97: var adjustedTime, windowOffset = w.selectBucket(time.Now())
SelectBucket(g) ==
    /\ pc[g] = "select"
    /\ local' = [local EXCEPT ![g] = selectBucket(tw, now)]
    /\ pc' = [pc EXCEPT ![g] = "repair"]
    /\ UNCHANGED <<aggregateVars, reducer, pw, fed, args, tw, now, call, visited, lastTouch, history>>

\* lines 86 and 98: w.keepConsistent(adjustedTime, windowOffset)
KeepConsistent(g) ==
    /\ pc[g] = "repair"
    /\ tw' = keepConsistent(tw, local[g].adjustedTime, local[g].windowOffset)
    /\ pc' = [pc EXCEPT ![g] = IF call[g].op = "Append" THEN "write" ELSE "scan"]
    /\ lastTouch' = local[g].adjustedTime
    /\ UNCHANGED <<aggregateVars, reducer, pw, fed, args, now, call, local, visited, history>>

\* variant of AppendValue that starts the bucket afresh at every write
AppendValueAfresh(g) ==
    LET sample == [value |-> call[g].value, born |-> local[g].adjustedTime]
    IN /\ pc[g] = "write"
       /\ tw' = [tw EXCEPT
                   !.window[local[g].windowOffset] = <<sample>>,
                   !.lastWindowTime = local[g].adjustedTime,
                   !.lastWindowOffset = local[g].windowOffset]
       /\ history' = Append(history, sample)
       /\ pc' = [pc EXCEPT ![g] = "unlock"]
       /\ UNCHANGED <<aggregateVars, reducer, pw, fed, args, now, call, local, visited, lastTouch>>

\* Append, lines 87-89
AppendValue(g) ==
    LET sample == [value |-> call[g].value, born |-> local[g].adjustedTime]
    IN /\ pc[g] = "write"
       /\ tw' = [tw EXCEPT
                   !.window[local[g].windowOffset] = Append(@, sample),
                   !.lastWindowTime = local[g].adjustedTime,
                   !.lastWindowOffset = local[g].windowOffset]
       /\ history' = Append(history, sample)
       /\ pc' = [pc EXCEPT ![g] = "unlock"]
       /\ UNCHANGED <<aggregateVars, reducer, pw, fed, args, now, call, local, visited, lastTouch>>

\* variant of Scan in which Iterate, like Append, advances lastWindowTime
\* and lastWindowOffset
ScanAndAdvance(g) ==
    /\ pc[g] = "scan"
    /\ visited' = [visited EXCEPT ![g] = Flatten(tw.window, 0, tw.numberOfBuckets)]
    /\ tw' = [tw EXCEPT !.lastWindowTime = local[g].adjustedTime,
                        !.lastWindowOffset = local[g].windowOffset]
    /\ pc' = [pc EXCEPT ![g] = "unlock"]
    /\ UNCHANGED <<aggregateVars, reducer, pw, fed, args, now, call, local, lastTouch, history>>

\* Iterate, lines 99-103
Scan(g) ==
    /\ pc[g] = "scan"
    /\ visited' = [visited EXCEPT ![g] = Flatten(tw.window, 0, tw.numberOfBuckets)]
    /\ pc' = [pc EXCEPT ![g] = "unlock"]
    /\ UNCHANGED <<aggregateVars, reducer, pw, fed, args, tw, now, call, local, lastTouch, history>>

\* the deferred w.lock.Unlock(); the call returns
Unlock(g) ==
    /\ pc[g] = "unlock"
    /\ tw' = [tw EXCEPT !.lock = FALSE]
    /\ pc' = [pc EXCEPT ![g] = "idle"]
    /\ call' = [call EXCEPT ![g] = NoCall]
    /\ local' = [local EXCEPT ![g] = NoLocal]
    /\ visited' = [visited EXCEPT ![g] = <<>>]
    /\ UNCHANGED <<aggregateVars, reducer, pw, fed, args, now, lastTouch, history>>

Next ==
    \/ Tick
    \/ \E g \in Goroutines, value \in Values : AppendCall(g, value)
    \/ \E g \in Goroutines : IterateCall(g)
    \/ \E g \in Goroutines : Lock(g)
    \/ \E g \in Goroutines : SelectBucket(g)
    \/ \E g \in Goroutines : KeepConsistent(g)
    \/ \E g \in Goroutines : AppendValue(g)
    \/ \E g \in Goroutines : Scan(g)
    \/ \E g \in Goroutines : Unlock(g)

Spec == Init /\ [][Next]_vars

\* fair scheduling: the clock keeps advancing (up to the model's bound) and
\* every goroutine keeps being scheduled and keeps calling
Step(g) == \/ \E value \in Values : AppendCall(g, value)
           \/ IterateCall(g)
           \/ Lock(g) \/ SelectBucket(g) \/ KeepConsistent(g)
           \/ AppendValue(g) \/ Scan(g) \/ Unlock(g)

FairSpec == Spec /\ WF_vars(Tick) /\ \A g \in Goroutines : WF_vars(Step(g))

\* ----------------------------------------------------------- PointWindow
\* the values fed to the PointWindow: a zero or the running count of values
\* fed so far (0, 1, 2, ... when fed in a row)
PointValues == {0, Len(fed)}

\* variant of pointAppend that advances the cursor before it stores
pointAppendAdvanceFirst(w, value) ==
    [w EXCEPT !.window[(w.offset + 1) % w.windowSize] = value,
              !.offset = (w.offset + 1) % w.windowSize]

\* PointWindow.Append, lines 30-31: store at the cursor, advance it
pointAppend(w, value) ==
    [w EXCEPT !.window[w.offset] = value,
              !.offset = (w.offset + 1) % w.windowSize]

\* sync.RWMutex: Lock waits for the writer and for every reader to leave
RWMutexLock(w) == /\ ~w.lock.writer
                  /\ w.lock.readers = 0
                  /\ pw' = [w EXCEPT !.lock.writer = TRUE]

\* variant of RWMutexRLock that does not wait for the writer
RWMutexRLockNoWait(w) == pw' = [w EXCEPT !.lock.readers = @ + 1]

\* sync.RWMutex: RLock waits for the writer to leave
RWMutexRLock(w) == /\ ~w.lock.writer
                   /\ pw' = [w EXCEPT !.lock.readers = @ + 1]

\* the PointWindow is built with any size within the bound (the TimeWindow
\* is a bystander)
InitPoint ==
    /\ args = [bucketSize |-> 1, numberOfBuckets |-> 1]
    /\ tw = NewTimeWindow(args.bucketSize, args.numberOfBuckets)
    /\ pw \in {NewPointWindow(windowSize) : windowSize \in 1..MaxWindowSize}
    /\ NoAggregation
    /\ InitGoroutines

\* a goroutine calls PointWindow.Append(value)
PointAppendCall(g, value) ==
    /\ pc[g] = "idle"
    /\ Len(fed) + Cardinality({h \in Goroutines : call[h].op = "Append"}) < MaxFeeds
    /\ call' = [call EXCEPT ![g] = [op |-> "Append", value |-> value]]
    /\ pc' = [pc EXCEPT ![g] = "wlock"]
    /\ UNCHANGED <<aggregateVars, reducer, timeWindowVars, pointWindowVars, visited>>

\* a goroutine calls PointWindow.Iterate(f)
PointIterateCall(g) ==
    /\ pc[g] = "idle"
    /\ call' = [call EXCEPT ![g] = [op |-> "Iterate", value |-> 0]]
    /\ pc' = [pc EXCEPT ![g] = "rlock"]
    /\ UNCHANGED <<aggregateVars, reducer, timeWindowVars, pointWindowVars, visited>>

\* Append line 27: w.lock.Lock()
PointLock(g) ==
    /\ pc[g] = "wlock"
    /\ RWMutexLock(pw)
    /\ pc' = [pc EXCEPT ![g] = "store"]
    /\ UNCHANGED <<aggregateVars, reducer, timeWindowVars, fed, call, visited>>

\* Append lines 30-31
PointAppendValue(g) ==
    /\ pc[g] = "store"
    /\ pw' = pointAppend(pw, call[g].value)
    /\ fed' = Append(fed, call[g].value)
    /\ pc' = [pc EXCEPT ![g] = "wunlock"]
    /\ UNCHANGED <<aggregateVars, reducer, timeWindowVars, call, visited>>

\* Append's deferred w.lock.Unlock(); the call returns
PointUnlock(g) ==
    /\ pc[g] = "wunlock"
    /\ pw' = [pw EXCEPT !.lock.writer = FALSE]
    /\ pc' = [pc EXCEPT ![g] = "idle"]
    /\ call' = [call EXCEPT ![g] = NoCall]
    /\ UNCHANGED <<aggregateVars, reducer, timeWindowVars, fed, visited>>

\* Iterate line 36: w.lock.RLock()
PointRLock(g) ==
    /\ pc[g] = "rlock"
    /\ RWMutexRLock(pw)
    /\ pc' = [pc EXCEPT ![g] = "visit"]
    /\ UNCHANGED <<aggregateVars, reducer, timeWindowVars, fed, call, visited>>

\* Iterate lines 39-41: one turn of the range loop; the slot is read when
\* its turn comes
PointVisit(g) ==
    /\ pc[g] = "visit"
    /\ Len(visited[g]) < pw.windowSize
    /\ visited' = [visited EXCEPT ![g] = Append(@, pw.window[Len(@)])]
    /\ UNCHANGED <<aggregateVars, reducer, timeWindowVars, pointWindowVars, pc, call>>

\* the loop is over: Iterate's deferred w.lock.RUnlock(); the call returns
PointRUnlock(g) ==
    /\ pc[g] = "visit"
    /\ Len(visited[g]) = pw.windowSize
    /\ pw' = [pw EXCEPT !.lock.readers = @ - 1]
    /\ pc' = [pc EXCEPT ![g] = "idle"]
    /\ call' = [call EXCEPT ![g] = NoCall]
    /\ visited' = [visited EXCEPT ![g] = <<>>]
    /\ UNCHANGED <<aggregateVars, reducer, timeWindowVars, fed>>

NextPoint ==
    \/ \E g \in Goroutines, value \in PointValues : PointAppendCall(g, value)
    \/ \E g \in Goroutines : PointIterateCall(g)
    \/ \E g \in Goroutines : PointLock(g)
    \/ \E g \in Goroutines : PointAppendValue(g)
    \/ \E g \in Goroutines : PointUnlock(g)
    \/ \E g \in Goroutines : PointRLock(g)
    \/ \E g \in Goroutines : PointVisit(g)
    \/ \E g \in Goroutines : PointRUnlock(g)

SpecPoint == InitPoint /\ [][NextPoint]_vars

\* ------------------------------------------- aggregators and reducers
\* float64 arithmetic is modelled exactly. Samples are integers; a percentile
\* is an integer number of tenths of a percent, so that the code's p/100 is
\* percentile/1000 here; a result is the fraction Float(num, den) in lowest
\* terms. Rounding to 53 bits is outside the model.
RECURSIVE GCD(_, _)
GCD(a, b) == IF b = 0 THEN a ELSE GCD(b, a % b)

Abs(x) == IF x < 0 THEN 0 - x ELSE x

\* the float64 quotient num / den of two integers: 0/0 is NaN, x/0 an infinity
Divide(num, den) ==
    IF den = 0
    THEN IF num = 0 THEN NaN ELSE Inf(IF num < 0 THEN 0 - 1 ELSE 1)
    ELSE LET g == GCD(Abs(num), Abs(den))
             s == IF den < 0 THEN 0 - 1 ELSE 1
         IN Float((s * num) \div g, (s * den) \div g)

\* math.Floor(num / den) for den > 0
Floor(num, den) == num \div den

\* math.Mod(num / den, 1) for den > 0, as a numerator over den: the result
\* has the sign of the dividend
ModOne(num, den) ==
    IF num >= 0 THEN num % den ELSE 0 - ((0 - num) % den)

\* the visit functions handed to it.Iterate: each updates the variables acc
\* it has captured with the visited value p
Visit(f, acc, p) ==
    CASE f = "count" -> acc + 1
      [] f = "sum" -> acc + p
      [] f = "avg" -> [result |-> acc.result + p,
                       numberOfPoints |-> acc.numberOfPoints + 1]
      [] f = "min" -> IF ~acc.gotOne
                      THEN [result |-> p, gotOne |-> TRUE]
                      ELSE [acc EXCEPT !.result = IF p < @ THEN p ELSE @]
      [] f = "max" -> IF ~acc.gotOne
                      THEN [result |-> p, gotOne |-> TRUE]
                      ELSE [acc EXCEPT !.result = IF p > @ THEN p ELSE @]
      [] f = "Avg" -> [result |-> acc.result + p, count |-> acc.count + 1]
      \* Min and Max never set started
      [] f = "Min" -> IF ~acc.started
                      THEN [acc EXCEPT !.result = p]
                      ELSE [acc EXCEPT !.result = IF p < @ THEN p ELSE @]
      [] f = "Max" -> IF ~acc.started
                      THEN [acc EXCEPT !.result = p]
                      ELSE [acc EXCEPT !.result = IF p > @ THEN p ELSE @]
      [] f = "append" -> Append(acc, p)

\* it.Iterate(f): f visits the values it[lo..hi] in order, starting from the
\* captured variables acc. The range is halved, and the first half is
\* evaluated (half = half) before the second starts, to keep the evaluation
\* shallow on the 1000 points of the percentile tests.
RECURSIVE Iterate(_, _, _, _, _)
Iterate(it, lo, hi, f, acc) ==
    IF lo > hi THEN acc
    ELSE IF lo = hi THEN Visit(f, acc, it[lo])
    ELSE LET mid == (lo + hi) \div 2
             half == Iterate(it, lo, mid, f, acc)
         IN IF half = half THEN Iterate(it, mid + 1, hi, f, half) ELSE acc

\* sort.Float64s
Float64s(values) == SortSeq(values, LAMBDA a, b : a < b)

\* aggregate.go, count
count(it) == Iterate(it, 1, Len(it), "count", 0)

\* aggregate.go, sum
sum(it) == Iterate(it, 1, Len(it), "sum", 0)

\* aggregate.go, avg: the division is not guarded
avg(it) ==
    LET acc == Iterate(it, 1, Len(it), "avg", [result |-> 0, numberOfPoints |-> 0])
    IN Divide(acc.result, acc.numberOfPoints)

\* aggregate.go, min
min(it) ==
    Float(Iterate(it, 1, Len(it), "min", [result |-> 0, gotOne |-> FALSE]).result, 1)

\* aggregate.go, max
max(it) ==
    Float(Iterate(it, 1, Len(it), "max", [result |-> 0, gotOne |-> FALSE]).result, 1)

\* reduce.go, Avg: the division is not guarded
Avg(it) ==
    LET acc == Iterate(it, 1, Len(it), "Avg", [result |-> 0, count |-> 0])
    IN Divide(acc.result, acc.count)

\* reduce.go, Min: the result of the visits, started from 0.0 and false
Min(it) ==
    Float(Iterate(it, 1, Len(it), "Min", [result |-> 0, started |-> FALSE]).result, 1)

\* reduce.go, Max: the result of the visits, started from 0.0 and false
Max(it) ==
    Float(Iterate(it, 1, Len(it), "Max", [result |-> 0, started |-> FALSE]).result, 1)

\* values[k] of a Go slice (indexes from 0) exists
InRange(values, k) == 0 <= k /\ k < Len(values)

\* values[k] alone, the fraction f ignored (nearest rank, no interpolation)
InterpolateNearest(values, k, plusOne, fNum, den) ==
    IF InRange(values, k) /\ InRange(values, plusOne)
    THEN Float(values[k + 1], 1)
    ELSE Panic

\* ((1 - f) * values[k]) + (f * values[plusOne]), f being fNum/den; an index
\* outside the slice panics
Interpolate(values, k, plusOne, fNum, den) ==
    IF InRange(values, k) /\ InRange(values, plusOne)
    THEN Divide((den - fNum) * values[k + 1] + fNum * values[plusOne + 1], den)
    ELSE Panic

\* the values the visit function has appended to values[:0]
Gather(it) == Iterate(it, 1, Len(it), "append", <<>>)

\* percentileAggregator.Aggregate with the rank taken as an index, the
\* subtraction of 1 forgotten
percentileAggregateOneBased(it, percentile) ==
    LET values == Gather(it)
    IN IF Len(values) < 1 THEN Float(0, 1)
       ELSE IF Len(values) < 2 THEN Float(values[1], 1)
       ELSE LET sorted == Float64s(values)
                nNum == percentile * Len(sorted)
                k == Floor(nNum, 1000)
                plusOne == IF k + 1 > Len(sorted) - 1 THEN k ELSE k + 1
                f == ModOne(nNum, 1000)
            IN Interpolate(sorted, k, plusOne, f, 1000)

\* aggregate.go, percentileAggregator.Aggregate, lines 74-91 (and the same
\* computation of percentileRollup.Aggregate); n is nNum/1000
percentileAggregate(it, percentile) ==
    LET values == Gather(it)
    IN IF Len(values) < 1 THEN Float(0, 1)
       ELSE IF Len(values) < 2 THEN Float(values[1], 1)
       ELSE LET sorted == Float64s(values)
                nNum == percentile * Len(sorted) - 1000
                k == Floor(nNum, 1000)
                plusOne == IF k + 1 > Len(sorted) - 1 THEN k ELSE k + 1
                f == ModOne(nNum, 1000)
            IN Interpolate(sorted, k, plusOne, f, 1000)

\* Percentile without the clamp of plusOne to the last index
PercentilePositionNoClamp(gathered, percentile) ==
    LET values == Float64s(gathered)
        posNum == (2 * Len(values) * percentile + 1000) - 2000
        k == Floor(posNum, 2000)
        f == ModOne(posNum, 2000)
        plusOne == k + 1
    IN IF f = 0
       THEN IF InRange(values, k) THEN Float(values[k + 1], 1) ELSE Panic
       ELSE Interpolate(values, k, plusOne, f, 2000)

\* reduce.go, Percentile, lines 86-98, on the gathered values; position is
\* posNum/2000
PercentilePosition(gathered, percentile) ==
    LET values == Float64s(gathered)
        posNum == (2 * Len(values) * percentile + 1000) - 2000
        k == Floor(posNum, 2000)
        f == ModOne(posNum, 2000)
        plusOne == IF k + 1 > Len(values) - 1 THEN k ELSE k + 1
    IN IF f = 0
       THEN IF InRange(values, k) THEN Float(values[k + 1], 1) ELSE Panic
       ELSE Interpolate(values, k, plusOne, f, 2000)

\* reduce.go, the function Percentile(p) returns, called alone
Percentile(it, percentile) == PercentilePosition(Gather(it), percentile)

\* NewPercentageAggregator(aggregator, lower, upper)
NewPercentageAggregator(lower, upper) ==
    [lower |-> lower, upper |-> upper, adjustedUpper |-> upper - lower]

\* percentageAggregateor.Aggregate without the clamp at the lower limit
percentageAggregateUnclamped(a, aggregate) ==
    LET value == aggregate - a.lower
    IN Divide(value, a.adjustedUpper)

\* percentageAggregateor.Aggregate (and percentageRollup.Aggregate), the
\* wrapped aggregator having returned aggregate
percentageAggregate(a, aggregate) ==
    LET value == aggregate - a.lower
    IN IF value <= 0 THEN Float(0, 1) ELSE Divide(value, a.adjustedUpper)

\* NewLimitedAggregator(limit, iterator, evaluator): the counter is a count
\* aggregator over the iterator
NewLimitedAggregator(limit) == [limit |-> limit]

\* limitedAggregator.Aggregate with the comparison of the doc comment: zero
\* until the iterator holds more than limit values
limitedAggregatePastLimit(e, it) ==
    IF count(it) <= e.limit THEN Float(0, 1) ELSE Float(sum(it), 1)

\* limitedAggregator.Aggregate, the evaluator being a sum aggregator over
\* the same iterator
limitedAggregate(e, it) ==
    IF count(it) < e.limit THEN Float(0, 1) ELSE Float(sum(it), 1)

\* the points 1..n of the percentile tests, in the order they are appended
OneTo(n) == [i \in 1..n |-> i]

\* what an iteratable may yield: every short sequence of points, in every
\* order, and the windows of the percentile tests
Iterators ==
    UNION {[1..n -> Points] : n \in 0..MaxSamples} \cup {OneTo(100), OneTo(1000)}

\* an iteratable is given; nothing has been aggregated (the windows and the
\* goroutines are bystanders)
InitAggregate ==
    /\ args = [bucketSize |-> 1, numberOfBuckets |-> 1]
    /\ tw = NewTimeWindow(args.bucketSize, args.numberOfBuckets)
    /\ pw = NewPointWindow(1)
    /\ InitGoroutines
    /\ iterator \in Iterators
    /\ out = NoResult
    /\ rollup = NoRollup
    /\ estimator = NoEstimator
    /\ built = NotBuilt
    /\ aggregator = NoAggregator
    /\ reducer = NewPercentile(0)

Returned(op, percentile, lower, upper, result) ==
    /\ out' = [op |-> op, percentile |-> percentile, lower |-> lower,
               upper |-> upper, limit |-> 0, result |-> result]
    /\ UNCHANGED <<iterator, rollup, estimator, built, aggregator, reducer, timeWindowVars, pointWindowVars,
                   pc, call, visited>>

\* NewAverageAggregator(it).Aggregate()
AggregateAvg == Returned("avg", 0, 0, 0, avg(iterator))
\* NewMinAggregator(it).Aggregate()
AggregateMin == Returned("min", 0, 0, 0, min(iterator))
\* NewMaxAggregator(it).Aggregate()
AggregateMax == Returned("max", 0, 0, 0, max(iterator))
\* Avg(it)
ReduceAvg == Returned("Avg", 0, 0, 0, Avg(iterator))
\* Min(it)
ReduceMin == Returned("Min", 0, 0, 0, Min(iterator))
\* Max(it)
ReduceMax == Returned("Max", 0, 0, 0, Max(iterator))
\* NewPercentileAggregator(percentile, it, 0).Aggregate()
AggregatePercentile(percentile) ==
    Returned("percentile", percentile, 0, 0,
             percentileAggregate(iterator, percentile))
\* Percentile(percentile)(it)
ReducePercentile(percentile) ==
    Returned("Percentile", percentile, 0, 0, Percentile(iterator, percentile))
\* NewPercentageAggregator(NewSumAggregator(it), lower, upper).Aggregate()
AggregatePercentage(lower, upper) ==
    Returned("percentage", 0, lower, upper,
             percentageAggregate(NewPercentageAggregator(lower, upper),
                                 sum(iterator)))

\* NewLimitedAggregator(limit, it, NewSumAggregator(it)).Aggregate()
AggregateLimited(limit) ==
    /\ out' = [op |-> "limited", percentile |-> 0, lower |-> 0, upper |-> 0,
               limit |-> limit,
               result |-> limitedAggregate(NewLimitedAggregator(limit), iterator)]
    /\ UNCHANGED <<iterator, rollup, estimator, built, aggregator, reducer, timeWindowVars, pointWindowVars,
                   pc, call, visited>>

NextAggregate ==
    \/ AggregateAvg
    \/ AggregateMin
    \/ AggregateMax
    \/ ReduceAvg
    \/ ReduceMin
    \/ ReduceMax
    \/ \E percentile \in Percentiles : AggregatePercentile(percentile)
    \/ \E percentile \in Percentiles : ReducePercentile(percentile)
    \/ \E lower \in Limits, upper \in Limits : AggregatePercentage(lower, upper)
    \/ \E limit \in 0..(MaxSamples + 1) : AggregateLimited(limit)

SpecAggregate == InitAggregate /\ [][NextAggregate]_vars

\* ---------------------------------------------------------------- rollups
\* A sum rollup is wrapped in percentage rollups, one around the other, and
\* Aggregate is called on the outermost one. An Aggregate struct is a node
\* [Source, Name, Value] of the heap; its address is its index, nil is 0.
MaxDepth == 2
MaxHeap == 6
Names == {"sum", "percentage"}
Lowers == {0, 2}
Uppers == {2}
RollupIterators == {it \in Iterators : Len(it) <= 1}

\* simpleRollup.Aggregate of a sum rollup: a fresh Aggregate without Source
simpleRollupAggregate(a, it) ==
    [Source |-> 0, Name |-> a.name, Value |-> Float(sum(it), 1)]

\* the float64 arithmetic of percentageRollup.Aggregate on the Value v of
\* the wrapped Aggregate: v - lower, 0 if that is not positive, else the
\* quotient by adjustedUpper
percentageOf(e, v) ==
    CASE v.kind = "float" ->
           LET value == v.num - e.lower * v.den
           IN IF value <= 0 THEN Float(0, 1)
              ELSE Divide(value, v.den * e.adjustedUpper)
      [] v.kind = "Inf" ->
           IF v.num < 0 THEN Float(0, 1)
           ELSE IF e.adjustedUpper < 0 THEN Inf(0 - 1) ELSE Inf(1)
      [] OTHER -> v

\* percentageRollup.Aggregate that forgets where its value came from
percentageRollupAggregateNoSource(e, p, heap) ==
    [Source |-> 0, Name |-> e.name, Value |-> percentageOf(e, heap[p].Value)]

\* percentageRollup.Aggregate, the wrapped rollup having returned the
\* Aggregate at address p: a fresh Aggregate with Source p
percentageRollupAggregate(e, p, heap) ==
    [Source |-> p, Name |-> e.name, Value |-> percentageOf(e, heap[p].Value)]

\* rollups[d].Aggregate(): the heap after the call, the returned Aggregate
\* being the last one allocated; a percentage rollup first calls the rollup
\* it wraps
RECURSIVE Aggregate(_, _, _, _)
Aggregate(rollups, d, it, heap) ==
    IF rollups[d].kind = "simple"
    THEN Append(heap, simpleRollupAggregate(rollups[d], it))
    ELSE LET wrapped == Aggregate(rollups, d - 1, it, heap)
         IN Append(wrapped,
                   percentageRollupAggregate(rollups[d], Len(wrapped), wrapped))

InitRollup ==
    /\ args = [bucketSize |-> 1, numberOfBuckets |-> 1]
    /\ tw = NewTimeWindow(args.bucketSize, args.numberOfBuckets)
    /\ pw = NewPointWindow(1)
    /\ InitGoroutines
    /\ iterator \in RollupIterators
    /\ out = NoResult
    /\ rollup = NoRollup
    /\ estimator = NoEstimator
    /\ built = NotBuilt
    /\ aggregator = NoAggregator
    /\ reducer = NewPercentile(0)

\* NewSumRollup(iterator, name)
NewSumRollup(name) ==
    /\ rollup.rollups = <<>>
    /\ rollup' = [rollup EXCEPT !.rollups =
                     <<[kind |-> "simple", name |-> name, lower |-> 0,
                        upper |-> 0, adjustedUpper |-> 0]>>]
    /\ UNCHANGED <<iterator, out, estimator, built, aggregator, reducer, timeWindowVars, pointWindowVars,
                   pc, call, visited>>

\* NewPercentageRollup(aggregator, lower, upper, name), aggregator being the
\* outermost rollup built so far
NewPercentageRollup(lower, upper, name) ==
    /\ rollup.rollups # <<>>
    /\ Len(rollup.rollups) <= MaxDepth
    /\ rollup' = [rollup EXCEPT !.rollups =
                     Append(@, [kind |-> "percentage", name |-> name,
                                lower |-> lower, upper |-> upper,
                                adjustedUpper |-> upper - lower])]
    /\ UNCHANGED <<iterator, out, estimator, built, aggregator, reducer, timeWindowVars, pointWindowVars,
                   pc, call, visited>>

\* Aggregate() on the outermost rollup
RollupAggregate ==
    /\ rollup.rollups # <<>>
    /\ Len(rollup.heap) + Len(rollup.rollups) <= MaxHeap
    /\ LET heap == Aggregate(rollup.rollups, Len(rollup.rollups), iterator,
                             rollup.heap)
       IN rollup' = [rollup EXCEPT !.heap = heap, !.result = Len(heap)]
    /\ UNCHANGED <<iterator, out, estimator, built, aggregator, reducer, timeWindowVars, pointWindowVars,
                   pc, call, visited>>

NextRollup ==
    \/ \E name \in Names : NewSumRollup(name)
    \/ \E lower \in Lowers, upper \in Uppers, name \in Names :
           NewPercentageRollup(lower, upper, name)
    \/ RollupAggregate

SpecRollup == InitRollup /\ [][NextRollup]_vars

\* --------------------------------------------------------- FastPercentile
\* The function returned by FastPercentile(p) is called on an iterator; the
\* callback it hands to Iterate runs once for each value, in order. An
\* array of the code with indices 0..4 is a function on 1..5 here.
MaxObservations == 7
FastPercentiles == {100, 500, 999}
FastIterators == UNION {[1..len -> Points] : len \in 0..MaxObservations}

\* float64 arithmetic on fractions. A quotient by zero is an infinity or NaN;
\* the operations below give NaN when an operand is not finite.
Finite(a) == a.kind = "float"
Plus(a, b) ==
    IF Finite(a) /\ Finite(b)
    THEN Divide(a.num * b.den + b.num * a.den, a.den * b.den) ELSE NaN
Minus(a, b) ==
    IF Finite(a) /\ Finite(b)
    THEN Divide(a.num * b.den - b.num * a.den, a.den * b.den) ELSE NaN
Times(a, b) ==
    IF Finite(a) /\ Finite(b)
    THEN Divide(a.num * b.num, a.den * b.den) ELSE NaN
Over(a, b) ==
    IF Finite(a) /\ Finite(b)
    THEN Divide(a.num * b.den, a.den * b.num) ELSE NaN
\* a < b and a <= b: false when an operand is NaN
Less(a, b) == Finite(a) /\ Finite(b) /\ a.num * b.den < b.num * a.den
LessEq(a, b) == Finite(a) /\ Finite(b) /\ a.num * b.den <= b.num * a.den

\* sign
sign(v) == IF Less(v, Float(0, 1)) THEN 0 - 1 ELSE 1

\* one pass of the inner loop of bubbleSort, from index x on
RECURSIVE bubblePass(_, _)
bubblePass(s, x) ==
    IF x >= Len(s) THEN s
    ELSE bubblePass(IF s[x] > s[x + 1]
                    THEN [s EXCEPT ![x] = s[x + 1], ![x + 1] = s[x]]
                    ELSE s, x + 1)

\* the outer loop of bubbleSort: as many passes as rounds
RECURSIVE bubblePasses(_, _)
bubblePasses(s, rounds) ==
    IF rounds = 0 THEN s ELSE bubblePasses(bubblePass(s, 1), rounds - 1)

\* bubbleSort: one pass for each element
bubbleSort(s) == bubblePasses(s, Len(s))

\* the sixth observation: the five recorded ones are sorted into the marker
\* heights q, the marker positions n are 0..4, the desired positions nPrime
\* and their increments dnPrime are set from p
Prime(e) ==
    LET sorted == bubbleSort(e.initalObservations)
        p == e.p
        one == Float(1, 1)
        two == Float(2, 1)
    IN [e EXCEPT
          !.initalObservations = sorted,
          !.q = [x \in 1..5 |-> Float(sorted[x], 1)],
          !.n = [x \in 1..5 |-> x - 1],
          !.nPrime = <<Float(0, 1), Times(two, p), Times(Float(4, 1), p),
                       Plus(two, Times(two, p)), Float(4, 1)>>,
          !.dnPrime = <<Float(0, 1), Over(p, two), p,
                        Over(Plus(one, p), two), one>>]

\* variant of Cell that leaves the extreme marker heights as they are
CellKeepExtremes(e, v) ==
    LET q == e.q
    IN CASE Less(v, q[2]) -> [k |-> 0, q |-> q]
         [] LessEq(q[2], v) /\ Less(v, q[3]) -> [k |-> 1, q |-> q]
         [] LessEq(q[3], v) /\ Less(v, q[4]) -> [k |-> 2, q |-> q]
         [] OTHER -> [k |-> 3, q |-> q]

\* the switch on v: the cell k whose upper markers move, and the extreme
\* marker heights widened to v
Cell(e, v) ==
    LET q == e.q
    IN CASE Less(v, q[1]) -> [k |-> 0, q |-> [q EXCEPT ![1] = v]]
         [] LessEq(q[1], v) /\ Less(v, q[2]) -> [k |-> 0, q |-> q]
         [] LessEq(q[2], v) /\ Less(v, q[3]) -> [k |-> 1, q |-> q]
         [] LessEq(q[3], v) /\ Less(v, q[4]) -> [k |-> 2, q |-> q]
         [] LessEq(q[4], v) /\ LessEq(v, q[5]) -> [k |-> 3, q |-> q]
         [] Less(q[5], v) -> [k |-> 3, q |-> [q EXCEPT ![5] = v]]
         [] OTHER -> [k |-> 0, q |-> q]

\* variant of Adjust that moves a marker whose desired position is one or
\* more away, however close the neighbouring marker
AdjustAnyway(e, x) ==
    LET i == x + 1
        n == e.n
        q == e.q
        d == Minus(e.nPrime[i], Float(n[i], 1))
        si == sign(d)
    IN IF LessEq(Float(1, 1), d) \/ LessEq(d, Float(0 - 1, 1))
       THEN [e EXCEPT
               !.q[i] = IF n[i + si] = n[i] THEN q[i + si]
                        ELSE Plus(q[i], Times(Float(si, 1),
                                  Over(Minus(q[i + si], q[i]),
                                       Float(n[i + si] - n[i], 1)))),
               !.n[i] = n[i] + si]
       ELSE e

\* one round of the adjustment loop, for the marker of index x of the code
\* (x + 1 here): moved by the parabolic formula, or linearly when the
\* parabola leaves the neighbouring heights
Adjust(e, x) ==
    LET i == x + 1
        n == e.n
        q == e.q
        d == Minus(e.nPrime[i], Float(n[i], 1))
    IN IF \/ LessEq(Float(1, 1), d) /\ n[i + 1] - n[i] > 1
          \/ LessEq(d, Float(0 - 1, 1)) /\ n[i - 1] - n[i] < 0 - 1
       THEN LET si == sign(d)
                s == Float(si, 1)
                nx == Float(n[i], 1)
                nxPlusOne == Float(n[i + 1], 1)
                nxMinusOne == Float(n[i - 1], 1)
                qx == q[i]
                qxPlusOne == q[i + 1]
                qxMinusOne == q[i - 1]
                parab ==
                    Plus(qx,
                         Times(Over(s, Minus(nxPlusOne, nxMinusOne)),
                               Plus(Over(Times(Plus(Minus(nx, nxMinusOne), s),
                                               Minus(qxPlusOne, qx)),
                                         Minus(nxPlusOne, nx)),
                                    Over(Times(Minus(Minus(nxPlusOne, nx), s),
                                               Minus(qx, qxMinusOne)),
                                         Minus(nx, nxMinusOne)))))
                linear ==
                    Plus(qx, Times(s, Over(Minus(q[i + si], qx),
                                           Float(n[i + si] - n[i], 1))))
            IN [e EXCEPT
                  !.q[i] = IF Less(qxMinusOne, parab) /\ Less(parab, qxPlusOne)
                           THEN parab ELSE linear,
                  !.n[i] = n[i] + si]
       ELSE e

\* the callback up to the adjustment loop, for the sixth observation and
\* every later one: the markers are primed at the sixth, the switch finds
\* the cell of v, the positions above the cell and the desired positions
\* advance
Insert(e, v) ==
    LET counted == [e EXCEPT !.observations = @ + 1]
        primed == IF counted.observations = 6 THEN Prime(counted) ELSE counted
        cell == Cell(primed, Float(v, 1))
    IN [primed EXCEPT
          !.q = cell.q,
          !.n = [x \in 1..5 |-> IF x - 1 >= cell.k + 1 THEN @[x] + 1 ELSE @[x]],
          !.nPrime = [x \in 1..5 |-> Plus(@[x], primed.dnPrime[x])]]

\* the callback handed to Iterate, called with v
Observe(e, v) ==
    IF e.observations + 1 < 6
    THEN [e EXCEPT !.observations = @ + 1,
                   !.initalObservations = Append(@, v)]
    ELSE Adjust(Adjust(Adjust(Insert(e, v), 1), 2), 3)

\* the value returned after Iterate, the smallest recorded observation
\* taken for the largest
ResultFirst(e) ==
    IF e.observations < 5
    THEN LET sorted == bubbleSort(e.initalObservations)
         IN IF Len(sorted) - 1 >= 0 THEN Float(sorted[1], 1) ELSE Panic
    ELSE e.q[3]

\* the value returned after Iterate: with fewer than five observations the
\* last of the sorted observations (index len - 1; index -1 panics), else
\* the middle marker height q[2]
Result(e) ==
    IF e.observations < 5
    THEN LET sorted == bubbleSort(e.initalObservations)
         IN IF Len(sorted) - 1 >= 0 THEN Float(sorted[Len(sorted)], 1)
            ELSE Panic
    ELSE e.q[3]

\* FastPercentile(percentile)(it): p is percentile/100 (percentile is in
\* tenths of a percent here) and the variables of the call hold their zero
\* values
NewEstimator(percentile) ==
    [at |-> "Iterate", percentile |-> percentile,
     p |-> Divide(percentile, 1000),
     initalObservations |-> <<>>,
     q |-> [x \in 1..5 |-> Float(0, 1)],
     n |-> [x \in 1..5 |-> 0],
     nPrime |-> [x \in 1..5 |-> Float(0, 1)],
     dnPrime |-> [x \in 1..5 |-> Float(0, 1)],
     observations |-> 0]

InitFast ==
    /\ args = [bucketSize |-> 1, numberOfBuckets |-> 1]
    /\ tw = NewTimeWindow(args.bucketSize, args.numberOfBuckets)
    /\ pw = NewPointWindow(1)
    /\ InitGoroutines
    /\ iterator \in FastIterators
    /\ out = NoResult
    /\ rollup = NoRollup
    /\ estimator = NoEstimator
    /\ built = NotBuilt
    /\ aggregator = NoAggregator
    /\ reducer = NewPercentile(0)

\* FastPercentile(percentile)(it), up to the call of it.Iterate
FastPercentile(percentile) ==
    /\ estimator.at = "idle"
    /\ estimator' = NewEstimator(percentile)
    /\ UNCHANGED <<iterator, out, rollup, built, aggregator, reducer, timeWindowVars,
                   pointWindowVars, pc, call, visited>>

\* Iterate calls the callback with the next value of the iterator
FastObserve ==
    /\ estimator.at = "Iterate"
    /\ estimator.observations < Len(iterator)
    /\ estimator' = Observe(estimator, iterator[estimator.observations + 1])
    /\ UNCHANGED <<iterator, out, rollup, built, aggregator, reducer, timeWindowVars,
                   pointWindowVars, pc, call, visited>>

\* Iterate has returned: the function returns its result
FastReturn ==
    /\ estimator.at = "Iterate"
    /\ estimator.observations = Len(iterator)
    /\ out' = [op |-> "FastPercentile", percentile |-> estimator.percentile,
               lower |-> 0, upper |-> 0, limit |-> 0,
               result |-> Result(estimator)]
    /\ estimator' = NoEstimator
    /\ UNCHANGED <<iterator, rollup, built, aggregator, reducer, timeWindowVars,
                   pointWindowVars, pc, call, visited>>

NextFast ==
    \/ \E percentile \in FastPercentiles : FastPercentile(percentile)
    \/ FastObserve
    \/ FastReturn

SpecFast == InitFast /\ [][NextFast]_vars

\* ----------------------------------------------------------- constructors
\* NewPointWindow and NewTimeWindow take any int and any time.Duration. A
\* window is built from parameters that may be zero or negative and one
\* Append or Iterate is called on it; built records how far that went.
MaxParameter == 1
MaxConstructClock == 3
Parameters == (0 - MaxParameter - 1)..MaxParameter

\* Go's integer quotient a / b, truncated toward zero, and remainder a % b,
\* with the sign of a, for b # 0
Quo(a, b) ==
    LET q == Abs(a) \div Abs(b)
    IN IF (a < 0) = (b < 0) THEN q ELSE 0 - q
Rem(a, b) == a - b * Quo(a, b)

\* make([]T, len): a negative length panics
MakePanics(len) == len < 0

\* selectBucket on a window of any parameters, as far as it gets: the
\* divisions by bucketSizeNano and by numberOfBuckets64 panic on zero
selectBucketFailure(bucketSizeNano, numberOfBuckets64) ==
    IF bucketSizeNano = 0 \/ numberOfBuckets64 = 0
    THEN "integer divide by zero" ELSE "none"

\* the windowOffset selectBucket returns when it does not panic
selectBucketOffset(bucketSizeNano, numberOfBuckets64, currentTime) ==
    Rem(Quo(currentTime, bucketSizeNano), numberOfBuckets64)

InitConstruct ==
    /\ args = [bucketSize |-> 1, numberOfBuckets |-> 1]
    /\ tw = NewTimeWindow(args.bucketSize, args.numberOfBuckets)
    /\ pw = NewPointWindow(1)
    /\ InitGoroutines
    /\ iterator = <<>>
    /\ out = NoResult
    /\ rollup = NoRollup
    /\ estimator = NoEstimator
    /\ built = NotBuilt
    /\ aggregator = NoAggregator
    /\ reducer = NewPercentile(0)

Construct(record) ==
    /\ built.state = "none"
    /\ built' = record
    /\ UNCHANGED <<iterator, out, rollup, estimator, aggregator, reducer, timeWindowVars,
                   pointWindowVars, pc, call, visited>>

Operate(op, currentTime, failure) ==
    /\ built.state = "constructed"
    /\ built' = [built EXCEPT
                   !.state = IF failure = "none" THEN "used" ELSE "failed",
                   !.op = op, !.currentTime = currentTime,
                   !.failure = failure]
    /\ UNCHANGED <<iterator, out, rollup, estimator, aggregator, reducer, timeWindowVars,
                   pointWindowVars, pc, call, visited>>

\* NewPointWindow(windowSize): no parameter is rejected; the window is
\* returned unless make panics
ConstructPointWindow(windowSize) ==
    Construct([kind |-> "PointWindow", windowSize |-> windowSize,
               state |-> IF MakePanics(windowSize) THEN "panicked"
                         ELSE "constructed",
               op |-> "none", currentTime |-> 0,
               failure |-> IF MakePanics(windowSize)
                           THEN "makeslice: len out of range" ELSE "none"])

\* NewTimeWindow(bucketSize, numberOfBuckets): no parameter is rejected; the
\* window is returned unless make panics on numberOfBuckets + 1
ConstructTimeWindow(bucketSize, numberOfBuckets) ==
    Construct([kind |-> "TimeWindow", bucketSize |-> bucketSize,
               numberOfBuckets |-> numberOfBuckets,
               state |-> IF MakePanics(numberOfBuckets + 1) THEN "panicked"
                         ELSE "constructed",
               op |-> "none", currentTime |-> 0,
               failure |-> IF MakePanics(numberOfBuckets + 1)
                           THEN "makeslice: len out of range" ELSE "none"])

\* the first PointWindow.Append: window[0] is written, then offset is
\* reduced modulo windowSize
FirstPointAppend ==
    /\ built.kind = "PointWindow"
    /\ Operate("Append", 0,
               IF built.windowSize = 0 THEN "index out of range" ELSE "none")

\* the first PointWindow.Iterate: a loop over the window
FirstPointIterate ==
    /\ built.kind = "PointWindow"
    /\ Operate("Iterate", 0, "none")

\* the first TimeWindow.Append at currentTime: selectBucket, keepConsistent
\* on empty buckets, then window[windowOffset] is appended to
FirstTimeAppend(currentTime) ==
    /\ built.kind = "TimeWindow"
    /\ LET failure == selectBucketFailure(built.bucketSize,
                                          built.numberOfBuckets + 1)
       IN Operate("Append", currentTime,
                  IF failure # "none" THEN failure
                  ELSE IF selectBucketOffset(built.bucketSize,
                                             built.numberOfBuckets + 1,
                                             currentTime) < 0
                       THEN "index out of range" ELSE "none")

\* the first TimeWindow.Iterate at currentTime: selectBucket, keepConsistent
\* on empty buckets, then a loop over the buckets
FirstTimeIterate(currentTime) ==
    /\ built.kind = "TimeWindow"
    /\ Operate("Iterate", currentTime,
               selectBucketFailure(built.bucketSize, built.numberOfBuckets + 1))

NextConstruct ==
    \/ \E windowSize \in Parameters : ConstructPointWindow(windowSize)
    \/ \E bucketSize \in Parameters, numberOfBuckets \in Parameters :
           ConstructTimeWindow(bucketSize, numberOfBuckets)
    \/ FirstPointAppend
    \/ FirstPointIterate
    \/ \E currentTime \in 0..MaxConstructClock : FirstTimeAppend(currentTime)
    \/ \E currentTime \in 0..MaxConstructClock : FirstTimeIterate(currentTime)

SpecConstruct == InitConstruct /\ [][NextConstruct]_vars

\* ---------------------------------------------------- percentileAggregator
\* One percentile aggregator, made with a preallocation hint, is called again
\* and again while the content of its iterator changes between the calls.
\* Its scratch slice values lives from call to call.
MaxHint == 2
MaxScratch == 2
HintPercentiles == {500, 1000}
HintIterators == UNION {[1..len -> Points] : len \in 0..MaxScratch}

\* make([]float64, preallocHint): preallocHint zeros
Make(len) == [x \in 1..len |-> 0]

\* the scratch slice after Iterate when it is not emptied first
FillWithoutTruncate(values, it) == Iterate(it, 1, Len(it), "append", values)

\* a.values = a.values[:0], then Iterate appends each value to a.values
Fill(values, it) ==
    Iterate(it, 1, Len(it), "append", SubSeq(values, 1, 0))

InitHint ==
    /\ args = [bucketSize |-> 1, numberOfBuckets |-> 1]
    /\ tw = NewTimeWindow(args.bucketSize, args.numberOfBuckets)
    /\ pw = NewPointWindow(1)
    /\ InitGoroutines
    /\ iterator \in HintIterators
    /\ out = NoResult
    /\ rollup = NoRollup
    /\ estimator = NoEstimator
    /\ built = NotBuilt
    /\ aggregator = NoAggregator
    /\ reducer = NewPercentile(0)

\* NewPercentileAggregator(percentile, iterator, preallocHint)
NewPercentileAggregator(percentile, preallocHint) ==
    /\ ~aggregator.made
    /\ aggregator' = [made |-> TRUE, percentile |-> percentile,
                      values |-> Make(preallocHint), before |-> <<>>]
       \* (before is history: the scratch values as the last call found them)
    /\ UNCHANGED <<iterator, out, rollup, estimator, built, reducer,
                   timeWindowVars, pointWindowVars, pc, call, visited>>

\* the window behind the iterator is written to: it yields other values
Rewrite(it) ==
    /\ iterator' = it
    /\ it # iterator
    /\ UNCHANGED <<out, rollup, estimator, built, aggregator, reducer,
                   timeWindowVars, pointWindowVars, pc, call, visited>>

\* percentileAggregator.Aggregate: the scratch slice is emptied, filled from
\* the iterator and sorted in place when it holds two values or more; the
\* result is computed from it
PercentileAggregate ==
    /\ aggregator.made
    /\ LET values == Fill(aggregator.values, iterator)
       IN /\ aggregator' = [aggregator EXCEPT
                              !.values = IF Len(values) < 2 THEN values
                                         ELSE Float64s(values),
                              !.before = aggregator.values]
          /\ out' = [op |-> "percentileAggregator",
                     percentile |-> aggregator.percentile,
                     lower |-> 0, upper |-> 0, limit |-> 0,
                     result |-> percentileAggregate(values,
                                                    aggregator.percentile)]
    /\ UNCHANGED <<iterator, rollup, estimator, built, reducer,
                   timeWindowVars, pointWindowVars, pc, call, visited>>

NextHint ==
    \/ \E percentile \in HintPercentiles, preallocHint \in 0..MaxHint :
           NewPercentileAggregator(percentile, preallocHint)
    \/ \E it \in HintIterators : Rewrite(it)
    \/ PercentileAggregate

SpecHint == InitHint /\ [][NextHint]_vars

\* ------------------------------------- Percentile on a shared TimeWindow
\* The goroutines share one TimeWindow and one function returned by
\* Percentile(p); they call Append, Iterate and the function.
InitReduce ==
    /\ args = [bucketSize |-> 1, numberOfBuckets |-> 1]
    /\ tw = NewTimeWindow(args.bucketSize, args.numberOfBuckets)
    /\ pw = NewPointWindow(1)
    /\ InitGoroutines
    /\ iterator = <<>>
    /\ out = NoResult
    /\ rollup = NoRollup
    /\ estimator = NoEstimator
    /\ built = NotBuilt
    /\ aggregator = NoAggregator
    /\ reducer \in {NewPercentile(p) : p \in ReducerPercentiles}

\* a goroutine calls the function returned by Percentile(p) on the window
PercentileCall(g) ==
    /\ pc[g] = "idle"
    /\ call' = [call EXCEPT ![g] = [op |-> "Percentile", value |-> 0]]
    /\ pc' = [pc EXCEPT ![g] = "acquire"]
    /\ UNCHANGED <<aggregateVars, reducer, timeWindowVars, pointWindowVars, visited>>

\* reduce.go lines 80-84: lock.Lock(), which waits while the lock is held;
\* values = values[:0]; it.Iterate(...) is called and goes for the window lock
ReducerLock(g) ==
    /\ pc[g] = "acquire"
    /\ ~reducer.lock
    /\ reducer' = [reducer EXCEPT !.lock = TRUE, !.values = <<>>]
    /\ pc' = [pc EXCEPT ![g] = "lock"]
    /\ UNCHANGED <<aggregateVars, timeWindowVars, pointWindowVars, call, visited>>

\* the wall clock advances, within the bound of this specification
ReduceTick ==
    /\ now < MaxReduceClock
    /\ Tick

\* a goroutine calls Append, within the bound of this specification
ReduceAppendCall(g, value) ==
    /\ Len(history) + Cardinality({h \in Goroutines : call[h].op = "Append"})
          < MaxReduceAppends
    /\ AppendCall(g, value)

\* Append or Iterate, called directly, returns
Return(g) ==
    /\ call[g].op # "Percentile"
    /\ Unlock(g)

\* reduce.go lines 84-86: it.Iterate returns, the window lock released; the
\* visit function has appended every visited value to values
ReducerVisited(g) ==
    /\ pc[g] = "unlock"
    /\ call[g].op = "Percentile"
    /\ tw' = [tw EXCEPT !.lock = FALSE]
    /\ reducer' = [reducer EXCEPT
                     !.values = [i \in DOMAIN visited[g] |-> visited[g][i].value]]
    /\ local' = [local EXCEPT ![g] = NoLocal]
    /\ visited' = [visited EXCEPT ![g] = <<>>]
    /\ pc' = [pc EXCEPT ![g] = "compute"]
    /\ UNCHANGED <<aggregateVars, pointWindowVars, args, now, call, lastTouch, history>>

\* reduce.go lines 87-98: the values are sorted in place and the percentile
\* is returned, or an index out of range panics
ReducerCompute(g) ==
    /\ pc[g] = "compute"
    /\ out' = [op |-> "Percentile", percentile |-> reducer.p, lower |-> 0,
               upper |-> 0, limit |-> 0,
               result |-> PercentilePosition(reducer.values, reducer.p)]
    /\ reducer' = [reducer EXCEPT !.values = Float64s(@)]
    /\ pc' = [pc EXCEPT ![g] = "release"]
    /\ UNCHANGED <<iterator, rollup, estimator, built, aggregator, timeWindowVars, pointWindowVars, call, visited>>

\* variant of the release in which a panic leaves the lock held, as if
\* lock.Unlock() were called before each return instead of deferred
ReducerUnlockUnlessPanic(g) ==
    /\ pc[g] = "release"
    /\ reducer' = [reducer EXCEPT !.lock = (out.result.kind = "panic")]
    /\ pc' = [pc EXCEPT ![g] = "idle"]
    /\ call' = [call EXCEPT ![g] = NoCall]
    /\ UNCHANGED <<aggregateVars, timeWindowVars, pointWindowVars, visited>>

\* reduce.go line 81: the deferred lock.Unlock() runs when the function
\* returns and when it panics; the call is over
ReducerUnlock(g) ==
    /\ pc[g] = "release"
    /\ reducer' = [reducer EXCEPT !.lock = FALSE]
    /\ pc' = [pc EXCEPT ![g] = "idle"]
    /\ call' = [call EXCEPT ![g] = NoCall]
    /\ UNCHANGED <<aggregateVars, timeWindowVars, pointWindowVars, visited>>

NextReduce ==
    \/ ReduceTick
    \/ \E g \in Goroutines, value \in Values : ReduceAppendCall(g, value)
    \/ \E g \in Goroutines : IterateCall(g)
    \/ \E g \in Goroutines : PercentileCall(g)
    \/ \E g \in Goroutines : ReducerLock(g)
    \/ \E g \in Goroutines : Lock(g)
    \/ \E g \in Goroutines : SelectBucket(g)
    \/ \E g \in Goroutines : KeepConsistent(g)
    \/ \E g \in Goroutines : AppendValue(g)
    \/ \E g \in Goroutines : Scan(g)
    \/ \E g \in Goroutines : Return(g)
    \/ \E g \in Goroutines : ReducerVisited(g)
    \/ \E g \in Goroutines : ReducerCompute(g)
    \/ \E g \in Goroutines : ReducerUnlock(g)

SpecReduce == InitReduce /\ [][NextReduce]_vars

\* a goroutine inside a call takes its next step when it can
Progress(g) ==
    \/ SelectBucket(g)
    \/ KeepConsistent(g)
    \/ AppendValue(g)
    \/ Scan(g)
    \/ Return(g)
    \/ ReducerVisited(g)
    \/ ReducerCompute(g)
    \/ ReducerUnlock(g)

\* fair scheduling: a running goroutine is eventually scheduled, and a
\* goroutine waiting for a sync.Mutex that is released again and again
\* eventually gets it (a waiter of more than 1ms puts the mutex in starvation
\* mode, which hands the lock over to the waiters in order)
FairSpecReduce ==
    /\ SpecReduce
    /\ \A g \in Goroutines :
          /\ WF_vars(Progress(g))
          /\ SF_vars(Lock(g))
          /\ SF_vars(ReducerLock(g))

\* ------------------------------- limitedAggregator on a shared TimeWindow
\* NewLimitedAggregator(limit, w, NewSumAggregator(w)) on a TimeWindow w that
\* other goroutines Append to while the clock advances.  The counter and the
\* evaluator each call w.Iterate, which holds the mutex of w for the whole
\* pass: a pass is one step, and so is an Append.
MaxGateClock == 3
MaxGateFeeds == 2
GateLimits == {1, 2}

\* the values w.Iterate visits at the clock reading `clock`, after its repair
IterateValues(w, clock) ==
    LET selected == selectBucket(w, clock)
        repaired == keepConsistent(w, selected.adjustedTime, selected.windowOffset)
        samples == Flatten(repaired.window, 0, repaired.numberOfBuckets)
    IN [k \in DOMAIN samples |-> samples[k].value]

\* w after the repair of w.Iterate at the clock reading `clock`
IterateRepair(w, clock) ==
    LET selected == selectBucket(w, clock)
    IN keepConsistent(w, selected.adjustedTime, selected.windowOffset)

InitGate ==
    /\ args = [bucketSize |-> 1, numberOfBuckets |-> 1]
    /\ tw = NewTimeWindow(args.bucketSize, args.numberOfBuckets)
    /\ pw = NewPointWindow(1)
    /\ NoAggregation
    /\ InitGoroutines

\* the wall clock advances
Elapse ==
    /\ now < MaxGateClock
    /\ now' = now + 1
    /\ UNCHANGED <<aggregateVars, reducer, pw, fed, args, tw, pc, call, local, visited, lastTouch, history>>

\* another goroutine calls TimeWindow.Append(value), lines 81-90
Feed(value) ==
    LET selected == selectBucket(tw, now)
        repaired == keepConsistent(tw, selected.adjustedTime, selected.windowOffset)
        sample == [value |-> value, born |-> selected.adjustedTime]
    IN /\ Len(history) < MaxGateFeeds
       /\ tw' = [repaired EXCEPT
                   !.window[selected.windowOffset] = Append(@, sample),
                   !.lastWindowTime = selected.adjustedTime,
                   !.lastWindowOffset = selected.windowOffset]
       /\ history' = Append(history, sample)
       /\ UNCHANGED <<aggregateVars, reducer, pw, fed, args, now, pc, call, local, visited, lastTouch>>

\* a goroutine calls limitedAggregator.Aggregate()
LimitedAggregate(g, limit) ==
    /\ pc[g] = "idle"
    /\ call' = [call EXCEPT ![g] = [op |-> "Aggregate", value |-> limit]]
    /\ pc' = [pc EXCEPT ![g] = "counter"]
    /\ UNCHANGED <<aggregateVars, reducer, pw, fed, args, tw, now, local, visited, lastTouch, history>>

\* variant of CounterAggregate whose gate is always open
CounterAggregateOpen(g) ==
    /\ pc[g] = "counter"
    /\ tw' = IterateRepair(tw, now)
    /\ pc' = [pc EXCEPT ![g] = "evaluator"]
    /\ UNCHANGED <<aggregateVars, reducer, pw, fed, args, now, call, local, visited, lastTouch, history>>

\* line 184: if e.counter.Aggregate() < e.limit { return 0 }
CounterAggregate(g) ==
    LET counter == count(IterateValues(tw, now))
    IN /\ pc[g] = "counter"
       /\ tw' = IterateRepair(tw, now)
       /\ IF counter < call[g].value
            THEN /\ out' = [op |-> "limitedAggregator", limit |-> call[g].value,
                            opened |-> FALSE, values |-> <<>>,
                            result |-> Float(0, 1)]
                 /\ pc' = [pc EXCEPT ![g] = "idle"]
                 /\ call' = [call EXCEPT ![g] = NoCall]
            ELSE /\ pc' = [pc EXCEPT ![g] = "evaluator"]
                 /\ UNCHANGED <<out, call>>
       /\ UNCHANGED <<iterator, rollup, estimator, built, aggregator, reducer, pw, fed,
                      args, now, local, visited, lastTouch, history>>

\* line 187: return e.evaluator.Aggregate()
EvaluatorAggregate(g) ==
    LET it == IterateValues(tw, now)
    IN /\ pc[g] = "evaluator"
       /\ tw' = IterateRepair(tw, now)
       /\ out' = [op |-> "limitedAggregator", limit |-> call[g].value,
                  opened |-> TRUE, values |-> it,
                  result |-> Float(sum(it), 1)]
       /\ pc' = [pc EXCEPT ![g] = "idle"]
       /\ call' = [call EXCEPT ![g] = NoCall]
       /\ UNCHANGED <<iterator, rollup, estimator, built, aggregator, reducer, pw, fed,
                      args, now, local, visited, lastTouch, history>>

NextGate ==
    \/ Elapse
    \/ \E value \in Values : Feed(value)
    \/ \E g \in Goroutines, limit \in GateLimits : LimitedAggregate(g, limit)
    \/ \E g \in Goroutines : CounterAggregate(g)
    \/ \E g \in Goroutines : EvaluatorAggregate(g)

SpecGate == InitGate /\ [][NextGate]_vars

\* ------------------------------ TimeWindow under a clock that steps back
\* One caller at a time (the mutex serialises the calls, so each call is one
\* step) on a TimeWindow whose wall clock, time.Now(), can also be set back.
MaxRegressBuckets == 3
MaxRegressClock == 4
MaxRegressAppends == 2

InitRegress ==
    /\ args \in [bucketSize : {1}, numberOfBuckets : 1..MaxRegressBuckets]
    /\ tw = NewTimeWindow(args.bucketSize, args.numberOfBuckets)
    /\ pw = NewPointWindow(1)
    /\ NoAggregation
    /\ InitGoroutines

\* the wall clock advances
Advance ==
    /\ now < MaxRegressClock
    /\ now' = now + 1
    /\ UNCHANGED <<aggregateVars, reducer, pw, fed, args, tw, pc, call, local, visited, lastTouch, history>>

\* the wall clock is set back
StepBack ==
    /\ \E earlier \in 0..(now - 1) : now' = earlier
    /\ UNCHANGED <<aggregateVars, reducer, pw, fed, args, tw, pc, call, local, visited, lastTouch, history>>

\* TimeWindow.Append(value), lines 81-90, as one step
TimeWindowAppend(value) ==
    LET selected == selectBucket(tw, now)
        repaired == keepConsistent(tw, selected.adjustedTime, selected.windowOffset)
        sample == [value |-> value, born |-> selected.adjustedTime]
    IN /\ Len(history) < MaxRegressAppends
       /\ tw' = [repaired EXCEPT
                   !.window[selected.windowOffset] = Append(@, sample),
                   !.lastWindowTime = selected.adjustedTime,
                   !.lastWindowOffset = selected.windowOffset]
       /\ history' = Append(history, sample)
       /\ lastTouch' = selected.adjustedTime
       /\ visited' = [g \in Goroutines |-> <<>>]
       /\ UNCHANGED <<aggregateVars, reducer, pw, fed, args, now, pc, call, local>>

\* TimeWindow.Iterate(f), lines 93-105, as one step
TimeWindowIterate ==
    LET selected == selectBucket(tw, now)
        repaired == keepConsistent(tw, selected.adjustedTime, selected.windowOffset)
    IN /\ tw' = repaired
       /\ visited' = [g \in Goroutines |->
                        Flatten(repaired.window, 0, repaired.numberOfBuckets)]
       /\ lastTouch' = selected.adjustedTime
       /\ UNCHANGED <<aggregateVars, reducer, pw, fed, args, now, pc, call, local, history>>

NextRegress ==
    \/ Advance
    \/ StepBack
    \/ \E value \in Values : TimeWindowAppend(value)
    \/ TimeWindowIterate

SpecRegress == InitRegress /\ [][NextRegress]_vars

\* ------------------------------------------------- TimeWindow properties
N == args.numberOfBuckets
MaxIndex == MaxClock \div args.bucketSize
IterateDone(g) == pc[g] = "unlock" /\ call[g].op = "Iterate"
AppendDone(g) == pc[g] = "unlock" /\ call[g].op = "Append"
Repaired(g) == pc[g] \in {"write", "scan"}
Last(seq) == seq[Len(seq)]
Occurrences(seq, s) == Cardinality({k \in DOMAIN seq : seq[k] = s})
ValuesOf(seq) == [k \in DOMAIN seq |-> seq[k].value]
Contents(w) == Flatten(w.window, 0, w.numberOfBuckets)

\* C1: every sample visited by an Iterate performed at bucket index c was
\* appended at a bucket index i with c - N < i <= c.
Freshness ==
    \A g \in Goroutines : IterateDone(g) =>
        \A k \in DOMAIN visited[g] :
            /\ local[g].adjustedTime - N < visited[g][k].born
            /\ visited[g][k].born <= local[g].adjustedTime

\* C2: when a touch happens at a bucket index exactly one greater than the
\* previous touch and samples have just aged out of the window, its repair
\* empties exactly one bucket, the one holding them, and every other bucket
\* keeps its contents.
StaleBuckets(w, c) ==
    {o \in DOMAIN w.window : \E k \in DOMAIN w.window[o] : w.window[o][k].born <= c - N}
OneBucketRetired ==
    [][\A g \in Goroutines :
         ( /\ pc[g] = "repair" /\ pc'[g] # "repair"
           /\ lastTouch # NoTouch
           /\ local[g].adjustedTime = lastTouch + 1
           /\ StaleBuckets(tw, local[g].adjustedTime) # {} )
         => \E o \in DOMAIN tw.window :
               /\ StaleBuckets(tw, local[g].adjustedTime) = {o}
               /\ tw'.window[o] = <<>>
               /\ \A other \in DOMAIN tw.window \ {o} :
                      tw'.window[other] = tw.window[other]]_vars

\* C3: a sample appended at bucket index i is visited by every Iterate
\* performed at a bucket index c with i <= c < i + N.
NoPrematureLoss ==
    \A g \in Goroutines : IterateDone(g) =>
        \A h \in DOMAIN history :
            ( /\ history[h].born <= local[g].adjustedTime
              /\ local[g].adjustedTime < history[h].born + N )
            => Occurrences(visited[g], history[h]) = Occurrences(history, history[h])

\* C3 witness: one Append in each of N = 2 consecutive bucket intervals,
\* then an Iterate that visits both samples.
NoPrematureLossWitness ==
    \E g \in Goroutines :
        /\ IterateDone(g) /\ N = 2 /\ Len(history) = 2
        /\ history[2].born = history[1].born + 1
        /\ local[g].adjustedTime = history[2].born
        /\ visited[g] = history

\* C4: if a touch happens at a bucket index more than N greater than the
\* index of the last Append, every bucket is empty after the repair step:
\* an Iterate visits nothing, an Append leaves exactly its own value.
FullWindowStaleness ==
    \A g \in Goroutines :
        /\ ( Repaired(g) /\ Len(history) > 0
             /\ local[g].adjustedTime - Last(history).born > N )
           => \A o \in DOMAIN tw.window : tw.window[o] = <<>>
        /\ ( IterateDone(g) /\ Len(history) > 0
             /\ local[g].adjustedTime - Last(history).born > N )
           => visited[g] = <<>>
        /\ ( AppendDone(g) /\ Len(history) > 1
             /\ local[g].adjustedTime - history[Len(history) - 1].born > N )
           => Contents(tw) = <<Last(history)>>

\* C5: an Iterate made N or more bucket durations after the last Append
\* visits no samples.
IdleWindowEmpty ==
    \A g \in Goroutines :
        ( IterateDone(g) /\ Len(history) > 0
          /\ local[g].adjustedTime - Last(history).born >= N )
        => visited[g] = <<>>

\* C6: if two consecutive Appends have bucket indices that differ by at
\* least N, an Iterate right after the second Append visits exactly the
\* second value.
SinglePointAfterGap ==
    \A g \in Goroutines :
        ( /\ IterateDone(g) /\ Len(history) > 1
          /\ Last(history).born - history[Len(history) - 1].born >= N
          /\ local[g].adjustedTime = Last(history).born )
        => ValuesOf(visited[g]) = <<Last(history).value>>

\* C7: every sample eventually expires: from some point on no Iterate
\* visits it any more.  The clock of the model stops at MaxClock, so the
\* statement is made for the samples that are older than the whole ring of
\* N + 1 buckets when it stops.
Overdue(s) == s.born + (N + 1) < MaxIndex
EventuallyExpires ==
    <>[](\A g \in Goroutines : \A k \in DOMAIN visited[g] : ~Overdue(visited[g][k]))

\* C9: no two calls on the same TimeWindow are inside the critical section
\* (clock read, repair, bucket mutation or scan) at the same time, and what
\* an Iterate visited is the content of the window it repaired.
InCritical(g) == pc[g] \in {"select", "repair", "write", "scan", "unlock"}
MutualExclusion ==
    /\ \A g, h \in Goroutines : (g # h) => ~(InCritical(g) /\ InCritical(h))
    /\ \A g \in Goroutines : InCritical(g) => tw.lock
    /\ \A g \in Goroutines : IterateDone(g) =>
          visited[g] = Contents(keepConsistent(tw, local[g].adjustedTime,
                                               local[g].windowOffset))

\* C9 witness: a goroutine scans the window while the other one waits for
\* the lock
MutualExclusionWitness ==
    \E g, h \in Goroutines :
        /\ pc[g] = "scan" /\ pc[h] = "lock" /\ call[h].op = "Append"
        /\ Len(history) > 0

\* the four cases of TestTimeWindowSelectBucket: 10 buckets of 50 (ms)
TestTimeWindowSelectBucket ==
    LET w == NewTimeWindow(50, 10)
    IN /\ selectBucket(w, 0) = [adjustedTime |-> 0, windowOffset |-> 0]
       /\ selectBucket(w, 50) = [adjustedTime |-> 1, windowOffset |-> 1]
       /\ selectBucket(w, 500) = [adjustedTime |-> 10, windowOffset |-> 10]
       /\ selectBucket(w, 550) = [adjustedTime |-> 11, windowOffset |-> 0]

\* C31: with N buckets of duration D, selectBucket at time t returns the
\* index floor(t/D) and the offset index mod (N+1): the offset is a position
\* 0..N of the ring, the index one bucket later has the next offset of the
\* ring, and the cases of the test hold.
SelectBucketRing ==
    [][\A g \in Goroutines : (pc[g] = "select" /\ pc'[g] = "repair") =>
          LET D == args.bucketSize
              ring == args.numberOfBuckets + 1
              index == local'[g].adjustedTime
              offset == local'[g].windowOffset
          IN /\ index * D <= now /\ now < (index + 1) * D
             /\ offset \in 0..args.numberOfBuckets
             /\ \E k \in 0..index : index = k * ring + offset
             /\ selectBucket(tw, now + D).adjustedTime = index + 1
             /\ selectBucket(tw, now + D).windowOffset =
                    IF offset = args.numberOfBuckets THEN 0 ELSE offset + 1
             /\ TestTimeWindowSelectBucket]_vars

\* a call has selected an index past the first turn of the ring, inside a
\* bucket longer than one clock unit
SelectBucketRingWitness ==
    \E g \in Goroutines :
        /\ pc[g] = "repair"
        /\ local[g].adjustedTime > args.numberOfBuckets
        /\ local[g].windowOffset = 0
        /\ args.bucketSize > 1

\* the samples appended at the bucket index of the last Append, in arrival
\* order
SameInterval == SelectSeq(history, LAMBDA s : s.born = tw.lastWindowTime)
Latest(seq, len) == SubSeq(seq, Len(seq) - len + 1, Len(seq))

\* C32: a touch at the bucket index equal to lastWindowTime repairs nothing:
\* keepConsistent leaves every bucket as it is.  So the Appends made within
\* one bucket interval are all in the bucket at the current offset, in
\* arrival order, and an Iterate in that interval visits all of them.
SameBucketNoRepair ==
    \A g \in Goroutines :
        /\ ( pc[g] = "repair" /\ local[g].adjustedTime = tw.lastWindowTime )
           => keepConsistent(tw, local[g].adjustedTime,
                             local[g].windowOffset).window = tw.window
        /\ AppendDone(g)
           => /\ Len(tw.window[local[g].windowOffset]) >= Len(SameInterval)
              /\ Latest(tw.window[local[g].windowOffset], Len(SameInterval))
                     = SameInterval
        /\ ( IterateDone(g) /\ local[g].adjustedTime = tw.lastWindowTime )
           => \E first \in 1..(Len(visited[g]) + 1) :
                  SubSeq(visited[g], first, first + Len(SameInterval) - 1)
                      = SameInterval

\* C32 witness: two Appends in one bucket interval after the first one, and
\* an Iterate in that interval that visits both, in arrival order
SameBucketNoRepairWitness ==
    \E g \in Goroutines :
        /\ IterateDone(g) /\ Len(history) = 2
        /\ history[1].born = history[2].born
        /\ history[1].value # history[2].value
        /\ history[1].born > 0
        /\ local[g].adjustedTime = history[1].born
        /\ visited[g] = history

\* C34: under a clock that never goes back, in every interleaving of
\* concurrent Appends and Iterates lastWindowTime never decreases, and after
\* every Append lastWindowOffset is lastWindowTime mod the ring size N + 1.
MarkersConsistent ==
    [][/\ tw'.lastWindowTime >= tw.lastWindowTime
       /\ \A g \in Goroutines : (pc[g] = "write" /\ pc'[g] = "unlock") =>
             /\ tw'.lastWindowTime <= now' \div args.bucketSize
             /\ tw'.lastWindowOffset = tw'.lastWindowTime % (N + 1)]_vars

\* C34 witness: two Appends at different bucket indices, the second one past
\* the first turn of the ring, made while the other goroutine waits for the
\* lock
MarkersConsistentWitness ==
    \E g, h \in Goroutines :
        /\ AppendDone(g) /\ pc[h] = "lock"
        /\ Len(history) = 2
        /\ history[1].born < history[2].born
        /\ tw.lastWindowTime = history[2].born
        /\ tw.lastWindowTime > N
        /\ tw.lastWindowOffset < tw.lastWindowTime

\* C33: an additional Iterate never changes what a later Iterate visits:
\* whatever Appends and clock advances led to the present window, an Iterate
\* at a clock reading `later` visits the same samples whether or not another
\* Iterate ran at a clock reading `extra` between now and then.
ReadsDoNotInterfere ==
    ~tw.lock =>
        \A extra, later \in now..MaxClock :
            extra <= later =>
                Contents(IterateRepair(IterateRepair(tw, extra), later))
                    = Contents(IterateRepair(tw, later))

\* the buckets of w that hold a sample appended within the N bucket indices
\* up to lastWindowTime
FreshBuckets(w) ==
    {o \in DOMAIN w.window :
        \E k \in DOMAIN w.window[o] :
            /\ w.window[o][k].born > w.lastWindowTime - N
            /\ w.window[o][k].born <= w.lastWindowTime}

\* C35: if a touch computes a bucket index smaller than lastWindowTime (the
\* wall clock was set back), its repair empties no bucket that holds samples
\* appended within the last N bucket indices before lastWindowTime.
RegressionHarmless ==
    [][(now \div args.bucketSize) < tw.lastWindowTime =>
          \A o \in FreshBuckets(tw) : tw'.window[o] # <<>>]_vars

\* --------------------------------------------------- PointWindow properties
PointIterateDone(g) == pc[g] = "visit" /\ Len(visited[g]) = pw.windowSize
Writing(g) == pc[g] \in {"store", "wunlock"}
Reading(g) == pc[g] = "visit"
Largest(set) == CHOOSE x \in set : \A y \in set : y <= x

\* the most recently fed value whose 0-based sequence number is congruent
\* to slot modulo the window size, or 0 if there is none
SlotValue(slot) ==
    LET numbers == {k \in 0..(Len(fed) - 1) : k % pw.windowSize = slot}
    IN IF numbers = {} THEN 0 ELSE fed[Largest(numbers) + 1]

\* C8: Iterate visits exactly W values in slot order 0..W-1, slot j holding
\* the most recently appended value whose sequence number is congruent to
\* j mod W, or 0 if there is none.
PointWindowContents ==
    \A g \in Goroutines : PointIterateDone(g) =>
        visited[g] = [k \in 1..pw.windowSize |-> SlotValue(k - 1)]

\* C8 witness: 0..4, then 5, then 6 appended to a window of size 5, and an
\* Iterate that visited 5 6 2 3 4
PointWindowContentsWitness ==
    \E g \in Goroutines :
        /\ PointIterateDone(g)
        /\ fed = <<0, 1, 2, 3, 4, 5, 6>>
        /\ visited[g] = <<5, 6, 2, 3, 4>>

\* C10: an Append never overlaps another Append or an Iterate, and what an
\* Iterate has visited so far equals the current slots: no Append took
\* effect since its first visit.
ReaderWriterDiscipline ==
    /\ \A g, h \in Goroutines :
          (g # h /\ Writing(g)) => ~(Writing(h) \/ Reading(h))
    /\ \A g \in Goroutines : Reading(g) =>
          \A k \in DOMAIN visited[g] : visited[g][k] = pw.window[k - 1]

\* C10 witness: two Iterates overlap, both part-way through a window that
\* has wrapped around
ReaderWriterDisciplineWitness ==
    /\ \A g \in Goroutines :
          Reading(g) /\ 0 < Len(visited[g]) /\ Len(visited[g]) < pw.windowSize
    /\ Len(fed) > pw.windowSize
    /\ pw.lock.readers = 2

\* C29 as stated: Append and Iterate alike leave lastWindowTime at the
\* current bucket index and lastWindowOffset at the current ring offset.
MarkersAdvanceOnBoth ==
    \A g \in Goroutines : (AppendDone(g) \/ IterateDone(g)) =>
        /\ tw.lastWindowTime = local[g].adjustedTime
        /\ tw.lastWindowOffset = local[g].windowOffset

\* C29 amended: Append sets lastWindowTime to the current bucket index and
\* lastWindowOffset to the current ring offset, after its repair step; no
\* step of an Iterate changes either marker.
MarkersAdvanceOnAppend ==
    [][\A g \in Goroutines :
         /\ (pc[g] = "write" /\ pc'[g] = "unlock") =>
               /\ tw'.lastWindowTime = local[g].adjustedTime
               /\ tw'.lastWindowOffset = local[g].windowOffset
         /\ (call[g].op = "Iterate" /\ pc'[g] # pc[g]) =>
               /\ tw'.lastWindowTime = tw.lastWindowTime
               /\ tw'.lastWindowOffset = tw.lastWindowOffset]_vars

\* an Iterate has visited the window at a later bucket index than the last
\* Append and the markers are still those of that Append
MarkersAdvanceOnAppendWitness ==
    \E g \in Goroutines :
        /\ IterateDone(g)
        /\ Len(history) > 0
        /\ tw.lastWindowTime = Last(history).born
        /\ local[g].adjustedTime > tw.lastWindowTime
        /\ local[g].windowOffset # tw.lastWindowOffset

\* the ring offsets strictly between last and current, in ring order
Between(w, current) ==
    {offset \in DOMAIN w.window :
        /\ offset # w.lastWindowOffset
        /\ (offset - w.lastWindowOffset) % w.numberOfBuckets
              < (current - w.lastWindowOffset) % w.numberOfBuckets}

\* C30: partial repair. When the current bucket index differs from
\* lastWindowTime by less than the ring size, keepConsistent empties exactly
\* the ring offsets strictly between lastWindowOffset and the current offset
\* in ring order and leaves every other bucket, among them the bucket at
\* lastWindowOffset and the bucket at the current offset, unchanged.
PartialRepair ==
    [][\A g \in Goroutines :
         ( /\ pc[g] = "repair" /\ pc'[g] # "repair"
           /\ local[g].adjustedTime - tw.lastWindowTime < tw.numberOfBuckets
           /\ tw.lastWindowTime - local[g].adjustedTime < tw.numberOfBuckets )
         => \A offset \in DOMAIN tw.window :
               tw'.window[offset] =
                   IF offset \in Between(tw, local[g].windowOffset)
                   THEN <<>> ELSE tw.window[offset]]_vars

\* a partial repair has emptied a bucket that held a sample and kept the
\* samples at the offset of the last Append
PartialRepairWitness ==
    \E g \in Goroutines :
        /\ Repaired(g)
        /\ local[g].adjustedTime - tw.lastWindowTime \in 1..(tw.numberOfBuckets - 1)
        /\ tw.window[tw.lastWindowOffset] # <<>>
        /\ \E offset \in Between(tw, local[g].windowOffset) :
              /\ tw.window[offset] = <<>>
              /\ \E h \in DOMAIN history :
                    history[h].born % tw.numberOfBuckets = offset

\* --------------------------------------------------- aggregator properties
\* the r-th smallest of the values of it, 1 <= r <= Len(it): the sample v[r-1]
\* of the ascending order, defined by counting instead of sorting
Ranked(it, r) ==
    CHOOSE x \in {it[i] : i \in DOMAIN it} :
        /\ Cardinality({i \in DOMAIN it : it[i] < x}) < r
        /\ r <= Cardinality({i \in DOMAIN it : it[i] <= x})

\* the linear interpolation of the ascending samples at the fractional index
\* num/den >= 0: between the sample at its floor and the next one, the next
\* index clamped to the last
Linear(it, num, den) ==
    LET k == num \div den
        fNum == num - den * k
        last == Len(it) - 1
        next == IF k + 1 > last THEN last ELSE k + 1
    IN Divide((den - fNum) * Ranked(it, k + 1) + fNum * Ranked(it, next + 1), den)

PercentileSparse ==
    out.op \in {"percentile", "Percentile"} =>
        /\ Len(iterator) = 0 => out.result = Float(0, 1)
        /\ Len(iterator) = 1 => out.result = Float(iterator[1], 1)

Least(set) == CHOOSE x \in set : \A y \in set : x <= y
Samples == {iterator[i] : i \in DOMAIN iterator}

\* C16: exact percentile is total. For every percentile in [0,100] and at
\* least two samples, the computation completes (every index it reads is
\* inside the sorted values) and its result lies between the smallest and
\* the largest sample.
PercentileTotal ==
    (out.op \in {"percentile", "Percentile"} /\ Len(iterator) >= 2) =>
        /\ out.result.kind = "float"
        /\ Least(Samples) * out.result.den <= out.result.num
        /\ out.result.num <= Largest(Samples) * out.result.den

\* C17: the average of an iterator that visits no sample is 0.0, not NaN.
AverageOfEmpty ==
    (out.op \in {"avg", "Avg"} /\ Len(iterator) = 0) => out.result = Float(0, 1)

\* C18: Min returns the smallest and Max the largest of the visited values,
\* for every non-empty content in every visiting order.
MinMaxExtremes ==
    Len(iterator) > 0 =>
        /\ out.op \in {"min", "Min"} => out.result = Float(Least(Samples), 1)
        /\ out.op \in {"max", "Max"} => out.result = Float(Largest(Samples), 1)

PercentageUnit ==
    (out.op = "percentage" /\ out.lower < out.upper) =>
        /\ sum(iterator) > out.upper => out.result = Float(1, 1)
        /\ out.result.kind = "float"
        /\ 0 <= out.result.num
        /\ out.result.num <= out.result.den

LimitedPastLimit ==
    out.op = "limited" =>
        /\ Len(iterator) <= out.limit => out.result = Float(0, 1)
        /\ Len(iterator) > out.limit => out.result = Float(sum(iterator), 1)

RECURSIVE Follow(_, _, _)
Follow(heap, a, steps) ==
    IF steps = 0 THEN a
    ELSE IF a <= 0 THEN 0 - 1
    ELSE Follow(heap, heap[a].Source, steps - 1)

FastSparseMax ==
    (out.op = "FastPercentile" /\ Len(iterator) \in 1..4) =>
        out.result = Float(Largest(Samples), 1)

\* four samples, the largest neither first nor last, have been reduced
FastSparseMaxWitness ==
    /\ out.op = "FastPercentile"
    /\ Len(iterator) = 4
    /\ iterator[2] > iterator[1]
    /\ iterator[2] > iterator[4]
    /\ iterator[2] >= iterator[3]
    /\ out.result = Float(iterator[2], 1)

\* C25: FastPercentile over an iterator that visits no sample returns 0.0.
FastOfEmpty ==
    (out.op = "FastPercentile" /\ Len(iterator) = 0) =>
        out.result = Float(0, 1)

\* the callback has just run for the sixth observation or a later one
SteadyObserve ==
    /\ estimator.at = "Iterate" /\ estimator'.at = "Iterate"
    /\ estimator'.observations = estimator.observations + 1
    /\ estimator'.observations >= 6

\* the samples the callback has been called with, once this step is done
ObservedNext == {iterator[i] : i \in 1..estimator'.observations}

\* the marker of index x of the code, if the adjustment moved it, lies
\* between the neighbours it had
StaysBetween(before, after, x) ==
    after.q[x + 1] # before.q[x + 1] =>
        /\ LessEq(before.q[x], after.q[x + 1])
        /\ LessEq(after.q[x + 1], before.q[x + 2])

\* C37: after every observation from the sixth onward the marker heights
\* are ordered, q[0] <= q[1] <= q[2] <= q[3] <= q[4], q[0] is the smallest
\* and q[4] the largest of the samples observed so far, and an interior
\* marker moved by the parabolic or the linear formula lies between its two
\* neighbours.
MarkerHeights ==
    [][SteadyObserve =>
          \A inserted \in {Insert(estimator, iterator[estimator'.observations])} :
          \A first \in {Adjust(inserted, 1)} :
          \A second \in {Adjust(first, 2)} :
          \A q \in {estimator'.q} :
             /\ \A i \in 1..4 : LessEq(q[i], q[i + 1])
             /\ q[1] = Float(Least(ObservedNext), 1)
             /\ q[5] = Float(Largest(ObservedNext), 1)
             /\ StaysBetween(inserted, first, 1)
             /\ StaysBetween(first, second, 2)
             /\ StaysBetween(second, estimator', 3)]_vars

\* C37 witness: at the sixth observation or later an interior marker has
\* been moved to a height that is none of the samples, and a sample beyond
\* the first five is the smallest so far
MarkerHeightsWitness ==
    /\ estimator.at = "Iterate"
    /\ estimator.observations >= 6
    /\ \E i \in 2..4 : estimator.q[i].den > 1
    /\ \A i \in 1..5 : iterator[6] < iterator[i]
    /\ estimator.q[1] = Float(iterator[6], 1)

\* the adjustment of the marker of index x of the code moves its position
\* by one at most, towards a neighbour more than one away, and leaves the
\* other positions alone
OneRankStep(before, after, x) ==
    /\ after.n[x + 1] - before.n[x + 1] \in {0 - 1, 0, 1}
    /\ after.n[x + 1] = before.n[x + 1] + 1
           => before.n[x + 2] - before.n[x + 1] > 1
    /\ after.n[x + 1] = before.n[x + 1] - 1
           => before.n[x + 1] - before.n[x] > 1
    /\ \A i \in 1..5 : i # x + 1 => after.n[i] = before.n[i]

\* the positions `inserted` are the positions `before` with one added to
\* exactly those above a cell k that v falls in
AboveCell(before, inserted, v) ==
    \E k \in 0..3 :
        /\ LessEq(inserted.q[k + 1], v)
        /\ LessEq(v, inserted.q[k + 2])
        /\ \A i \in 1..5 :
              inserted.n[i] = before[i] + (IF i - 1 > k THEN 1 ELSE 0)

\* the positions n are in order, from 0 to observations - 1
RanksOrdered(n, observations) ==
    /\ n[1] = 0
    /\ \A i \in 1..4 : n[i] < n[i + 1]
    /\ n[5] = observations - 1

\* the stages of one call of the callback: the positions before it, the
\* estimator after the switch and the increments, and after each round of
\* the adjustment loop
RankStages(before, inserted, first, second, third, v) ==
    /\ RanksOrdered(third.n, third.observations)
    /\ AboveCell(before, inserted, v)
    /\ OneRankStep(inserted, first, 1)
    /\ OneRankStep(first, second, 2)
    /\ OneRankStep(second, third, 3)

\* C38: after every observation from the sixth onward the marker positions
\* satisfy n[0] = 0 < n[1] < n[2] < n[3] < n[4] = observations - 1; the
\* observation adds one to exactly the positions above the cell its value
\* falls in, and an adjustment changes a position by exactly +1 or -1, only
\* when the neighbouring position in that direction is more than one away.
RankCounters ==
    [][SteadyObserve =>
          \A v \in {iterator[estimator'.observations]} :
          \A inserted \in {Insert(estimator, v)} :
          \A first \in {Adjust(inserted, 1)} :
          \A second \in {Adjust(first, 2)} :
              RankStages(IF estimator'.observations = 6
                         THEN [x \in 1..5 |-> x - 1] ELSE estimator.n,
                         inserted, first, second, estimator', Float(v, 1))]_vars

\* C38 witness: at the sixth observation or later one marker position has
\* been adjusted down and the one above it has not
RankCountersWitness ==
    /\ estimator.at = "Iterate"
    /\ estimator.observations >= 6
    /\ estimator.n[5] = estimator.observations - 1
    /\ \E i \in 2..3 : estimator.n[i] = i - 1 /\ estimator.n[i + 1] = i + 1

\* C39: for every stream of five samples or more and every percentile, the
\* value FastPercentile returns lies between the smallest and the largest
\* of the samples.
FastInRange ==
    (out.op = "FastPercentile" /\ Len(iterator) >= 5) =>
        /\ LessEq(Float(Least(Samples), 1), out.result)
        /\ LessEq(out.result, Float(Largest(Samples), 1))

\* -------------------------------------------------- constructor properties
Malformed ==
    \/ built.kind = "PointWindow" /\ built.windowSize <= 0
    \/ built.kind = "TimeWindow"
         /\ (built.bucketSize <= 0 \/ built.numberOfBuckets <= 0)

\* C27: a count-bounded window of zero or negative capacity, or a
\* time-bucketed window of zero or negative bucket duration or bucket
\* count, is refused at construction: no window is returned, and so no later
\* Append or Iterate runs on one. (A panic inside the constructor is counted
\* as a refusal here.)
ConstructorsFailFast ==
    Malformed => built.state \notin {"constructed", "used", "failed"}

====
